---- MODULE Spec2Model ----
(***************************************************************************)
(* EventPipeFile (src/vm/eventpipefile.cpp): the writer of the block based *)
(* event trace file.  Events are appended to one EventPipeBlock; a block   *)
(* that cannot take the next record is handed to the FastSerializer and    *)
(* cleared; the first event of a type is preceded by a metadata record.    *)
(* Every shared-memory access of WriteEvent is one step of the calling     *)
(* thread, so that concurrent callers interleave as the code lets them.    *)
(***************************************************************************)
EXTENDS Integers, Sequences, FiniteSets, TLC

\* ---------------------------------------------------------------- bounds
MaxEvents == 3          \* WriteEvent calls made in one single-writer run
NumTypes == 2           \* distinct EventPipeEvent objects the callers use

\* ------------------------------------------------------------- constants
BlockCapacity == 100 * 1024                \* new EventPipeBlock(100 * 1024)
HalfBlock == BlockCapacity \div 2

EventTypes == 1..NumTypes
Threads == {"t1", "t2"}
NoThread == "none"
NoInstance == [kind |-> "none", ev |-> 0, desc |-> 0, mid |-> 0, size |-> 0]

HeaderObject == [tag |-> "Header", recs |-> <<>>]
BlockObject(recs) == [tag |-> "Block", recs |-> recs]
NullReference == [tag |-> "NullReference", recs |-> <<>>]

VARIABLES
    debugBuild,            \* _DEBUG is defined in this build
    m_lockOnWrite,         \* synchronous multi-writer mode (a _DEBUG-only field)
    m_pBlock,              \* records held by the current block
    m_pSerializer,         \* objects and tags written to the file so far
    m_pMetadataIds,        \* the hash: a set of <<event, id>> entries
    m_metadataIdCounter,
    m_serializationLock,   \* thread holding the spin lock, or NoThread
    phase,                 \* "live", or "destroyed" once ~EventPipeFile has run
    fatal,                 \* "none", "assert" (_ASSERTE fired), "av" (NULL dereference)
    pc,                    \* per thread: position inside WriteEvent
    instance,              \* per thread: the caller's EventPipeEventInstance
    metadataId,            \* per thread: local of WriteEvent
    pMetadataInstance,     \* per thread: local of WriteEvent
    site,                  \* per thread: which WriteToBlock call is running
    result,                \* per thread: what the last retry of WriteToBlock gave
    calls,                 \* number of WriteEvent calls started
    pushed,                \* records handed to WriteToBlock, in call order
    lateCall,              \* a WriteEvent call was started after WriteEnd had run
    flushes,               \* per thread: WriteObject calls of its current WriteEvent
    smallRecords           \* the callers of this run write records of a fifth of a block

vars == <<debugBuild, m_lockOnWrite, m_pBlock, m_pSerializer, m_pMetadataIds,
          m_metadataIdCounter, m_serializationLock, phase, fatal, pc, instance,
          metadataId, pMetadataInstance, site, result, calls, pushed, lateCall,
          flushes, smallRecords>>

shared == <<m_pBlock, m_pSerializer, m_pMetadataIds, m_metadataIdCounter,
            m_serializationLock>>
config == <<debugBuild, m_lockOnWrite, smallRecords>>

\* ------------------------------------------------------------- helpers
RECURSIVE SizeOf(_)
SizeOf(recs) == IF recs = <<>> THEN 0 ELSE Head(recs).size + SizeOf(Tail(recs))

\* EventPipeBlock::WriteEvent: all or nothing, accepted iff it fits
BlockFits(recs, rec) == SizeOf(recs) + rec.size <= BlockCapacity
BlockWriteEvent(recs, rec) == IF BlockFits(recs, rec) THEN Append(recs, rec) ELSE recs

\* Serialized sizes of the callers' instances: two fill the block exactly, one
\* more byte overshoots it, and the last is larger than a whole block.  The
\* oversized record is written by the single writer only: with concurrent
\* callers (a _DEBUG configuration) it can end in nothing but the _ASSERTE.
\* In a run of small records five of them fill the block.
FifthBlock == BlockCapacity \div 5
Sizes ==
    IF smallRecords THEN {FifthBlock, HalfBlock}
    ELSE {HalfBlock, HalfBlock + 1} \cup
         (IF m_lockOnWrite THEN {} ELSE {BlockCapacity + 1})
\* serialized sizes of the instances BuildEventMetadataEvent returns
MetaSizes ==
    IF smallRecords THEN {FifthBlock}
    ELSE {HalfBlock} \cup (IF m_lockOnWrite THEN {} ELSE {BlockCapacity + 1})

\* the callers of this writer: one thread unless lockOnWrite was requested
Callers == IF m_lockOnWrite THEN Threads ELSE {"t1"}
\* calls made in one run; concurrent callers share one call fewer
MaxCalls == IF m_lockOnWrite THEN MaxEvents - 1 ELSE MaxEvents

\* the instance a thread is pushing through WriteToBlock
Current(t) == IF site[t] = "meta" THEN pMetadataInstance[t] ELSE instance[t]

\* the writer as the constructor leaves it
InitWriter ==
    /\ debugBuild \in BOOLEAN
    /\ m_lockOnWrite \in (IF debugBuild THEN BOOLEAN ELSE {FALSE})
    /\ m_pBlock = <<>>
    /\ m_pSerializer = <<HeaderObject>>
    /\ m_pMetadataIds = {}
    /\ m_metadataIdCounter = 0
    /\ m_serializationLock = NoThread
    /\ phase = "live"
    /\ fatal = "none"
    /\ pc = [t \in Threads |-> "idle"]
    /\ instance = [t \in Threads |-> NoInstance]
    /\ metadataId = [t \in Threads |-> 0]
    /\ pMetadataInstance = [t \in Threads |-> NoInstance]
    /\ site = [t \in Threads |-> "none"]
    /\ result = [t \in Threads |-> TRUE]
    /\ calls = 0
    /\ pushed = <<>>
    /\ lateCall = FALSE
    /\ flushes = [t \in Threads |-> 0]

Init == InitWriter /\ smallRecords = FALSE


\* --------------------------------------------------- EventPipeFile members
\* GetMetadataId: the ids Lookup can hand back for this event, 0 when none
GetMetadataId(event) ==
    LET found == {e[2] : e \in {x \in m_pMetadataIds : x[1] = event}}
    IN  IF found = {} THEN {0} ELSE found

\* the synchronous-write lock is compiled in under _DEBUG and taken on request
TakesLock == debugBuild /\ m_lockOnWrite

\* WriteToBlock returns to its call site in WriteEvent: after the metadata
\* write comes SaveMetadataId, after the instance write WriteEvent is over
Returned(t, inst, pm, res) ==
    /\ result' = [result EXCEPT ![t] = res]
    /\ site' = [site EXCEPT ![t] = "none"]
    /\ pMetadataInstance' = pm
    /\ IF site[t] = "meta"
       THEN /\ pc' = [pc EXCEPT ![t] = "SaveMetadataId"]
            /\ instance' = inst
            /\ UNCHANGED <<metadataId, flushes>>
       ELSE /\ pc' = [pc EXCEPT ![t] = "idle"]
            /\ instance' = [inst EXCEPT ![t] = NoInstance]
            /\ metadataId' = [metadataId EXCEPT ![t] = 0]
            /\ flushes' = [flushes EXCEPT ![t] = 0]

\* A call on a destroyed writer reads m_pBlock and m_pSerializer through a
\* dangling this: it finds the NULL of lines 81 and 87 and stops on an access
\* violation, or it finds the old pointers and goes on in the freed objects.
NullDereference(t) ==
    /\ phase = "destroyed"
    /\ fatal' = "av"
    /\ UNCHANGED <<config, shared, phase, pc, instance, metadataId,
                   pMetadataInstance, site, result, calls, pushed, lateCall, flushes>>

\* WriteEvent, entry and line 103: nothing looks at whether WriteEnd has run
WriteEvent(t) ==
    /\ fatal = "none"
    /\ t \in Callers /\ pc[t] = "idle" /\ calls < MaxCalls
    /\ phase = "live" \/ ~lateCall        \* one call after the close is followed
    /\ \E ev \in EventTypes, sz \in Sizes : \E id \in GetMetadataId(ev) :
        /\ instance' = [instance EXCEPT ![t] =
               [kind |-> "event", ev |-> ev, desc |-> 0, mid |-> 0, size |-> sz]]
        /\ metadataId' = [metadataId EXCEPT ![t] = id]
        /\ pc' = [pc EXCEPT ![t] = IF id = 0 THEN "GenerateMetadataId" ELSE "WriteToBlock"]
        /\ site' = [site EXCEPT ![t] = IF id = 0 THEN "none" ELSE "inst"]
    /\ calls' = calls + 1
    /\ lateCall' = (lateCall \/ phase = "destroyed")
    /\ UNCHANGED <<config, shared, phase, fatal, pMetadataInstance, result, pushed,
                   flushes>>

\* mutant: the counter is read before the increment, so the first id is 0
GenerateMetadataId_FromZero(t) ==
    /\ fatal = "none" /\ pc[t] = "GenerateMetadataId"
    /\ m_metadataIdCounter' = m_metadataIdCounter + 1
    /\ metadataId' = [metadataId EXCEPT ![t] = m_metadataIdCounter]
    /\ \E sz \in MetaSizes :
        pMetadataInstance' = [pMetadataInstance EXCEPT ![t] =
            [kind |-> "meta", ev |-> instance[t].ev, desc |-> m_metadataIdCounter,
             mid |-> m_metadataIdCounter, size |-> sz]]
    /\ site' = [site EXCEPT ![t] = "meta"]
    /\ pc' = [pc EXCEPT ![t] = "WriteToBlock"]
    /\ UNCHANGED <<config, m_pBlock, m_pSerializer, m_pMetadataIds, m_serializationLock,
                   phase, fatal, instance, result, calls, pushed, lateCall, flushes>>

\* mutant: a plain increment, lost when another thread is at its own
GenerateMetadataId_NotInterlocked(t) ==
    /\ fatal = "none" /\ pc[t] = "GenerateMetadataId"
    /\ m_metadataIdCounter' =
          IF \E u \in Threads \ {t} : pc[u] = "GenerateMetadataId"
          THEN m_metadataIdCounter ELSE m_metadataIdCounter + 1
    /\ metadataId' = [metadataId EXCEPT ![t] = m_metadataIdCounter + 1]
    /\ \E sz \in MetaSizes :
        pMetadataInstance' = [pMetadataInstance EXCEPT ![t] =
            [kind |-> "meta", ev |-> instance[t].ev, desc |-> m_metadataIdCounter + 1,
             mid |-> m_metadataIdCounter + 1, size |-> sz]]
    /\ site' = [site EXCEPT ![t] = "meta"]
    /\ pc' = [pc EXCEPT ![t] = "WriteToBlock"]
    /\ UNCHANGED <<config, m_pBlock, m_pSerializer, m_pMetadataIds, m_serializationLock,
                   phase, fatal, instance, result, calls, pushed, lateCall, flushes>>

\* lines 106-108: InterlockedIncrement, then BuildEventMetadataEvent
GenerateMetadataId(t) ==
    /\ fatal = "none" /\ pc[t] = "GenerateMetadataId"
    /\ m_metadataIdCounter' = m_metadataIdCounter + 1
    /\ metadataId' = [metadataId EXCEPT ![t] = m_metadataIdCounter + 1]
    /\ \E sz \in MetaSizes :
        pMetadataInstance' = [pMetadataInstance EXCEPT ![t] =
            [kind |-> "meta", ev |-> instance[t].ev, desc |-> m_metadataIdCounter + 1,
             mid |-> m_metadataIdCounter + 1, size |-> sz]]
    /\ site' = [site EXCEPT ![t] = "meta"]
    /\ pc' = [pc EXCEPT ![t] = "WriteToBlock"]
    /\ UNCHANGED <<config, m_pBlock, m_pSerializer, m_pMetadataIds, m_serializationLock,
                   phase, fatal, instance, result, calls, pushed, lateCall, flushes>>

\* mutant: the instance keeps the id it was built with
SetMetadataId_Keep(rec, id) == rec

\* line 150: instance.SetMetadataId(metadataId)
SetMetadataId(rec, id) == [rec EXCEPT !.mid = id]

\* mutant: the block is flushed before the append is tried
WriteToBlock_FlushFirst(t) ==
    /\ fatal = "none" /\ pc[t] = "WriteToBlock" /\ phase = "live"
    /\ LET id == IF site[t] = "meta" THEN 0 ELSE metadataId[t]
           rec == SetMetadataId(Current(t), id)
       IN  /\ pushed' = Append(pushed, rec)
           /\ instance' = IF site[t] = "meta" THEN instance ELSE [instance EXCEPT ![t] = rec]
           /\ pMetadataInstance' = IF site[t] = "meta"
                                   THEN [pMetadataInstance EXCEPT ![t] = rec]
                                   ELSE pMetadataInstance
    /\ pc' = [pc EXCEPT ![t] = "FlushBlock"]
    /\ UNCHANGED <<config, shared, phase, fatal, metadataId, site, result, calls,
                   lateCall, flushes>>

\* lines 150-155: SetMetadataId, then the first append
WriteToBlock(t) ==
    /\ fatal = "none" /\ pc[t] = "WriteToBlock"
    /\ \/ NullDereference(t)
       \/ LET id == IF site[t] = "meta" THEN 0 ELSE metadataId[t]
              rec == SetMetadataId(Current(t), id)
              inst == IF site[t] = "meta" THEN instance ELSE [instance EXCEPT ![t] = rec]
              pm == IF site[t] = "meta" THEN [pMetadataInstance EXCEPT ![t] = rec]
                    ELSE pMetadataInstance
          IN  /\ pushed' = Append(pushed, rec)
              /\ IF BlockFits(m_pBlock, rec)
                 THEN /\ m_pBlock' = BlockWriteEvent(m_pBlock, rec)
                      /\ Returned(t, inst, pm, TRUE)
                 ELSE /\ pc' = [pc EXCEPT ![t] = IF TakesLock THEN "TakeLock" ELSE "FlushBlock"]
                      /\ instance' = inst /\ pMetadataInstance' = pm
                      /\ UNCHANGED <<m_pBlock, metadataId, site, result, flushes>>
              /\ UNCHANGED <<config, m_pSerializer, m_pMetadataIds, m_metadataIdCounter,
                             m_serializationLock, phase, fatal, calls, lateCall>>

\* line 163: SpinLockHolder _slh(&m_serializationLock)
TakeLock(t) ==
    /\ fatal = "none" /\ pc[t] = "TakeLock"
    /\ m_serializationLock = NoThread
    /\ m_serializationLock' = t
    /\ pc' = [pc EXCEPT ![t] = "ReleaseLock"]
    /\ UNCHANGED <<config, m_pBlock, m_pSerializer, m_pMetadataIds, m_metadataIdCounter,
                   phase, fatal, instance, metadataId, pMetadataInstance, site, result,
                   calls, pushed, lateCall, flushes>>

\* line 164: the holder's scope closes, its destructor releases the lock
ReleaseLock(t) ==
    /\ fatal = "none" /\ pc[t] = "ReleaseLock"
    /\ m_serializationLock' = NoThread
    /\ pc' = [pc EXCEPT ![t] = "FlushBlock"]
    /\ UNCHANGED <<config, m_pBlock, m_pSerializer, m_pMetadataIds, m_metadataIdCounter,
                   phase, fatal, instance, metadataId, pMetadataInstance, site, result,
                   calls, pushed, lateCall, flushes>>

\* mutant: the full block is cleared without being written
FlushBlock_Drop(t) ==
    /\ fatal = "none" /\ pc[t] = "FlushBlock"
    /\ pc' = [pc EXCEPT ![t] = "ClearBlock"]
    /\ UNCHANGED <<config, shared, phase, fatal, instance, metadataId,
                   pMetadataInstance, site, result, calls, pushed, lateCall, flushes>>

\* line 169: m_pSerializer->WriteObject(m_pBlock)
FlushBlock(t) ==
    /\ fatal = "none" /\ pc[t] = "FlushBlock"
    /\ \/ NullDereference(t)
       \/ \* a write through a deleted serializer reaches no file
          /\ m_pSerializer' = IF phase = "destroyed" THEN m_pSerializer
                              ELSE Append(m_pSerializer, BlockObject(m_pBlock))
          /\ flushes' = [flushes EXCEPT ![t] = @ + 1]
          /\ pc' = [pc EXCEPT ![t] = "ClearBlock"]
          /\ UNCHANGED <<config, m_pBlock, m_pMetadataIds, m_metadataIdCounter,
                         m_serializationLock, phase, fatal, instance, metadataId,
                         pMetadataInstance, site, result, calls, pushed, lateCall>>

\* line 171: m_pBlock->Clear()
ClearBlock(t) ==
    /\ fatal = "none" /\ pc[t] = "ClearBlock"
    /\ \/ NullDereference(t)
       \/ /\ m_pBlock' = <<>>
          /\ pc' = [pc EXCEPT ![t] = "RetryAppend"]
          /\ UNCHANGED <<config, m_pSerializer, m_pMetadataIds, m_metadataIdCounter,
                         m_serializationLock, phase, fatal, instance, metadataId,
                         pMetadataInstance, site, result, calls, pushed, lateCall, flushes>>

\* lines 173-175: the retry into the cleared block, and _ASSERTE(result == true),
\* which is compiled out unless _DEBUG: a release build returns whatever result is
RetryAppend(t) ==
    /\ fatal = "none" /\ pc[t] = "RetryAppend"
    /\ \/ NullDereference(t)
       \/ LET res == BlockFits(m_pBlock, Current(t))
          IN  /\ m_pBlock' = BlockWriteEvent(m_pBlock, Current(t))
              /\ IF debugBuild /\ ~res
                 THEN /\ fatal' = "assert"
                      /\ result' = [result EXCEPT ![t] = res]
                      /\ UNCHANGED <<pc, instance, metadataId, pMetadataInstance, site,
                                     flushes>>
                 ELSE /\ Returned(t, instance, pMetadataInstance, res)
                      /\ UNCHANGED fatal
              /\ UNCHANGED <<config, m_pSerializer, m_pMetadataIds, m_metadataIdCounter,
                             m_serializationLock, phase, calls, pushed, lateCall>>

\* SaveMetadataId, line 224: Lookup(&event, &oldId)
SaveMetadataId(t) ==
    /\ fatal = "none" /\ pc[t] = "SaveMetadataId"
    /\ pc' = [pc EXCEPT ![t] =
          IF GetMetadataId(instance[t].ev) # {0} THEN "SaveRemove" ELSE "SaveAdd"]
    /\ UNCHANGED <<config, shared, phase, fatal, instance, metadataId,
                   pMetadataInstance, site, result, calls, pushed, lateCall, flushes>>

\* SaveMetadataId, line 226: Remove(&event) takes one entry of this key out
SaveRemove(t) ==
    /\ fatal = "none" /\ pc[t] = "SaveRemove"
    /\ LET mine == {x \in m_pMetadataIds : x[1] = instance[t].ev}
       IN  IF mine = {} THEN UNCHANGED m_pMetadataIds
           ELSE \E x \in mine : m_pMetadataIds' = m_pMetadataIds \ {x}
    /\ pc' = [pc EXCEPT ![t] = "SaveAdd"]
    /\ UNCHANGED <<config, m_pBlock, m_pSerializer, m_metadataIdCounter,
                   m_serializationLock, phase, fatal, instance, metadataId,
                   pMetadataInstance, site, result, calls, pushed, lateCall, flushes>>

\* mutant: the id is not added to the hash
SaveAdd_Forget(t) ==
    /\ fatal = "none" /\ pc[t] = "SaveAdd"
    /\ pMetadataInstance' = [pMetadataInstance EXCEPT ![t] = NoInstance]
    /\ site' = [site EXCEPT ![t] = "inst"]
    /\ pc' = [pc EXCEPT ![t] = "WriteToBlock"]
    /\ UNCHANGED <<config, shared, phase, fatal, instance, metadataId,
                   result, calls, pushed, lateCall, flushes>>

\* SaveMetadataId, line 230: Add(&event, metadataId); then lines 114-115, the
\* metadata instance and its data are deleted
SaveAdd(t) ==
    /\ fatal = "none" /\ pc[t] = "SaveAdd"
    /\ m_pMetadataIds' = m_pMetadataIds \cup {<<instance[t].ev, metadataId[t]>>}
    /\ pMetadataInstance' = [pMetadataInstance EXCEPT ![t] = NoInstance]
    /\ site' = [site EXCEPT ![t] = "inst"]
    /\ pc' = [pc EXCEPT ![t] = "WriteToBlock"]
    /\ UNCHANGED <<config, m_pBlock, m_pSerializer, m_metadataIdCounter,
                   m_serializationLock, phase, fatal, instance, metadataId,
                   result, calls, pushed, lateCall, flushes>>

\* mutant: the NullReference tag is written before the last block
WriteEnd_TagFirst ==
    /\ m_pSerializer' = m_pSerializer \o <<NullReference, BlockObject(m_pBlock)>>
    /\ m_pBlock' = <<>>

\* mutant: an empty block is not written at the end
WriteEnd_SkipEmpty ==
    /\ m_pSerializer' = m_pSerializer \o
          (IF m_pBlock = <<>> THEN <<>> ELSE <<BlockObject(m_pBlock)>>) \o <<NullReference>>
    /\ m_pBlock' = <<>>

\* WriteEnd, lines 131-137: the current block, whatever it holds, a Clear,
\* then the NullReference tag
WriteEnd ==
    /\ m_pSerializer' = m_pSerializer \o <<BlockObject(m_pBlock), NullReference>>
    /\ m_pBlock' = <<>>

\* ~EventPipeFile: both pointers are set, so WriteEnd runs (lines 73-76), then
\* the block and the serializer are deleted and the pointers set to NULL
Destructor ==
    /\ fatal = "none" /\ phase = "live"
    /\ \A t \in Threads : pc[t] = "idle"
    /\ WriteEnd
    /\ phase' = "destroyed"
    /\ UNCHANGED <<config, m_pMetadataIds, m_metadataIdCounter, m_serializationLock,
                   fatal, pc, instance, metadataId, pMetadataInstance, site, result,
                   calls, pushed, lateCall, flushes>>

Next ==
    \/ \E t \in Threads :
        \/ WriteEvent(t) \/ GenerateMetadataId(t) \/ WriteToBlock(t)
        \/ TakeLock(t) \/ ReleaseLock(t) \/ FlushBlock(t) \/ ClearBlock(t)
        \/ RetryAppend(t)
        \/ SaveMetadataId(t) \/ SaveRemove(t) \/ SaveAdd(t)
    \/ Destructor

Spec == Init /\ [][Next]_vars

\* The single-writer configurations.  One thread never reaches the lock, nor
\* the Remove of SaveMetadataId: it saves an id only after its own lookup of
\* the same event found none.
InitSingle == Init /\ ~m_lockOnWrite

NextSingle ==
    \/ \E t \in Threads :
        \/ WriteEvent(t) \/ GenerateMetadataId(t) \/ WriteToBlock(t)
        \/ FlushBlock(t) \/ ClearBlock(t) \/ RetryAppend(t)
        \/ SaveMetadataId(t) \/ SaveAdd(t)
    \/ Destructor

SpecSingle == InitSingle /\ [][NextSingle]_vars

\* WriteToBlock and SaveMetadataId are THROWS.  An exception leaves WriteEvent
\* through lines 110 or 112: nothing catches it and no holder owns
\* pMetadataInstance, so the deletes of lines 114-115 are not reached.
Thrown(t) ==
    /\ pc' = [pc EXCEPT ![t] = "idle"]
    /\ instance' = [instance EXCEPT ![t] = NoInstance]
    /\ metadataId' = [metadataId EXCEPT ![t] = 0]
    /\ site' = [site EXCEPT ![t] = "none"]
    /\ flushes' = [flushes EXCEPT ![t] = 0]
    /\ UNCHANGED <<config, shared, phase, fatal, pMetadataInstance, result, calls,
                   pushed, lateCall>>

\* line 169: WriteObject fails (the write to the file stream)
WriteObjectThrows(t) ==
    /\ fatal = "none" /\ pc[t] = "FlushBlock" /\ phase = "live"
    /\ Thrown(t)

\* line 230: Add fails (the hash cannot grow)
AddThrows(t) ==
    /\ fatal = "none" /\ pc[t] = "SaveAdd" /\ phase = "live"
    /\ Thrown(t)

NextFaults ==
    \/ NextSingle
    \/ \E t \in Threads : WriteObjectThrows(t) \/ AddThrows(t)

SpecFaults == InitSingle /\ [][NextFaults]_vars

\* a single writer whose records are small enough for several to share a block
InitSmall == InitWriter /\ ~m_lockOnWrite /\ smallRecords = TRUE

SpecSmall == InitSmall /\ [][NextSingle]_vars


\* ------------------------------------------------------ reading the stream
RECURSIVE Flat(_)
\* the records of all objects of a stream, in stream order
Flat(stream) == IF stream = <<>> THEN <<>> ELSE Head(stream).recs \o Flat(Tail(stream))

Range(seq) == {seq[i] : i \in DOMAIN seq}
Count(seq, x) == Cardinality({i \in DOMAIN seq : seq[i] = x})
TagCount(tag) == Cardinality({i \in DOMAIN m_pSerializer : m_pSerializer[i].tag = tag})

\* the run ended in finalization: every call returned, then the writer was destroyed
Closed == phase = "destroyed" /\ ~lateCall /\ fatal = "none"

\* the event types the WriteEvent calls of this run were made for
TypesWritten == {r.ev : r \in {x \in Range(pushed) : x.kind = "event"}}

\* an event record at position i refers to a metadata record earlier in the stream
DescribedEarlier(F, i) == \E j \in 1..(i - 1) : F[j].mid = 0 /\ F[j].desc = F[i].mid

\* C1: single writer, after finalization: as many metadata records (id 0) as
\* event types written, each in the stream before every event record that
\* carries the id it describes.
C1_OneMetadataPerTypeFirst ==
    (Closed /\ ~m_lockOnWrite) =>
        LET F == Flat(m_pSerializer)
        IN  /\ Cardinality({i \in DOMAIN F : F[i].mid = 0}) = Cardinality(TypesWritten)
            /\ \A i \in DOMAIN F : F[i].mid # 0 => DescribedEarlier(F, i)

\* C2: concurrent writers, after finalization: every event type written has a
\* metadata record in the stream, and every event record's id names a metadata
\* record that comes earlier in the stream.
C2_MetadataBeforeUseUnderRaces ==
    (Closed /\ m_lockOnWrite) =>
        LET F == Flat(m_pSerializer)
        IN  /\ \A e \in TypesWritten : \E j \in DOMAIN F : F[j].mid = 0 /\ F[j].ev = e
            /\ \A i \in DOMAIN F : F[i].mid # 0 => DescribedEarlier(F, i)

\* C3: with lockOnWrite, a thread that is at the flush, the clear or the retry
\* of WriteToBlock holds the serialization lock, and no two threads are there
\* at once.
InFlushSection(t) == pc[t] \in {"FlushBlock", "ClearBlock", "RetryAppend"}
C3_FlushSectionHoldsLock ==
    m_lockOnWrite =>
        /\ \A t \in Threads : InFlushSection(t) => m_serializationLock = t
        /\ \A t, u \in Threads : (InFlushSection(t) /\ InFlushSection(u)) => t = u

\* C4: the stream is the header, once and first, then block objects only, and,
\* once the writer is destroyed, exactly one NullReference tag, which is last.
C4_StreamShape ==
    /\ m_pSerializer[1] = HeaderObject
    /\ TagCount("Header") = 1
    /\ TagCount("NullReference") = (IF phase = "destroyed" THEN 1 ELSE 0)
    /\ phase = "destroyed" => m_pSerializer[Len(m_pSerializer)] = NullReference
    /\ TagCount("Block") = Len(m_pSerializer) - 1 - TagCount("NullReference")
C4_Witness ==
    /\ phase = "destroyed" /\ m_lockOnWrite
    /\ TagCount("Block") >= 3
    /\ Len(pushed) >= 3

\* C5: single writer, no record larger than the block, after finalization: the
\* bytes of all block objects are the bytes of all records handed to
\* WriteToBlock, and each record is in the blocks as often as it was handed in.
AllFit == \A r \in Range(pushed) : r.size <= BlockCapacity
C5_BlockBytesArePushedBytes ==
    (Closed /\ ~m_lockOnWrite /\ AllFit) =>
        LET F == Flat(m_pSerializer)
        IN  /\ SizeOf(F) = SizeOf(pushed)
            /\ \A r \in Range(pushed) \cup Range(F) : Count(F, r) = Count(pushed, r)
C5_Witness ==
    /\ Closed /\ ~m_lockOnWrite /\ AllFit
    /\ TagCount("Block") >= 4
    /\ \E r \in Range(pushed) : r.kind = "meta"

\* C6: concurrent writers, all calls returned before finalization: the bytes of
\* all block objects are the bytes of all records written.
C6_NoRecordLostUnderRaces ==
    (Closed /\ m_lockOnWrite) =>
        LET F == Flat(m_pSerializer)
        IN  /\ SizeOf(F) = SizeOf(pushed)
            /\ \A r \in Range(pushed) \cup Range(F) : Count(F, r) = Count(pushed, r)

\* C7: once finalization has run, a WriteEvent call is rejected: it appends no
\* record to the block, and the stream stays as finalization left it, ending
\* in its one NullReference tag.
C7_UseAfterCloseRejected ==
    phase = "destroyed" =>
        /\ m_pBlock = <<>>
        /\ m_pSerializer[Len(m_pSerializer)] = NullReference
        /\ TagCount("NullReference") = 1

\* C8: a retry that fails, which a single writer sees only for a record larger
\* than the block, ends WriteToBlock in a fatal error, never in a normal return.
C8_CapacityViolationIsFatal ==
    \A t \in Threads : ~result[t] => fatal = "assert"


\* C9: an append of a record exactly as large as the free space of the block
\* puts it in the block and leaves the serializer alone; one byte more and the
\* record goes to the flush, the block untouched; the flush writes one object,
\* and the retry of a record no larger than the block succeeds.
Free == BlockCapacity - SizeOf(m_pBlock)
FirstAppend(t) == phase = "live" /\ pc[t] = "WriteToBlock" /\ pc'[t] # "WriteToBlock"
Flush(t) == phase = "live" /\ pc[t] = "FlushBlock" /\ pc'[t] # "FlushBlock"
Retry(t) ==
    phase = "live" /\ pc[t] = "RetryAppend" /\ (pc'[t] # "RetryAppend" \/ fatal' # fatal)
C9_BlockBoundary ==
    [][\A t \in Threads :
        /\ (FirstAppend(t) /\ Current(t).size = Free) =>
              /\ Len(m_pBlock') = Len(m_pBlock) + 1 /\ SizeOf(m_pBlock') = BlockCapacity
              /\ m_pSerializer' = m_pSerializer
              /\ pc'[t] \in {"idle", "SaveMetadataId"}
        /\ (FirstAppend(t) /\ Current(t).size = Free + 1) =>
              /\ pc'[t] \in {"TakeLock", "FlushBlock"}
              /\ UNCHANGED <<m_pBlock, m_pSerializer>>
        /\ Flush(t) =>
              /\ m_pSerializer' = Append(m_pSerializer, BlockObject(m_pBlock))
              /\ pc'[t] = "ClearBlock"
        /\ (Retry(t) /\ Current(t).size <= BlockCapacity) =>
              /\ result'[t] /\ fatal' = "none"
              /\ m_pBlock' = <<Current(t)>>
      ]_vars

\* C10: single writer: the n-th event type first seen gets metadata id n, its
\* metadata record describes id n, every event of the type carries id n, and
\* the hash holds no id below 1.
FirstIdx(e) ==
    CHOOSE i \in DOMAIN pushed : pushed[i].ev = e /\ \A j \in 1..(i - 1) : pushed[j].ev # e
Rank(e) == Cardinality({pushed[j].ev : j \in 1..FirstIdx(e)})
C10_NthTypeGetsIdN ==
    ~m_lockOnWrite =>
        /\ \A i \in DOMAIN pushed :
              IF pushed[i].kind = "meta"
              THEN pushed[i].desc = Rank(pushed[i].ev) /\ i = FirstIdx(pushed[i].ev)
              ELSE pushed[i].mid = Rank(pushed[i].ev)
        /\ \A x \in m_pMetadataIds : x[2] = Rank(x[1]) /\ x[2] >= 1
        /\ m_metadataIdCounter = Cardinality({r.ev : r \in Range(pushed)})
           \/ \E t \in Threads : pc[t] = "WriteToBlock" /\ site[t] = "meta"
C10_Witness ==
    /\ ~m_lockOnWrite
    /\ \E j, k \in DOMAIN pushed :
          /\ j < k
          /\ pushed[j].kind = "event" /\ pushed[j].mid = 2
          /\ pushed[k].kind = "event" /\ pushed[k].mid = 1


\* C11: single writer, all records written fit one block together, after
\* finalization: the stream is the header, one block, the NullReference tag;
\* the block holds the records in the order they were written; a metadata
\* record is the first record of its type and is followed at once by the
\* first event record of that type, which carries the id it describes, and
\* the ids count up from 1.
MetasUpTo(i) == Cardinality({j \in 1..i : pushed[j].kind = "meta"})
C11_OneBlockMetadataBeforeFirstEvent ==
    (Closed /\ ~m_lockOnWrite /\ SizeOf(pushed) <= BlockCapacity) =>
        /\ m_pSerializer = <<HeaderObject, BlockObject(pushed), NullReference>>
        /\ \A i \in DOMAIN pushed :
              IF pushed[i].kind = "meta"
              THEN /\ pushed[i].mid = 0 /\ pushed[i].desc = MetasUpTo(i)
                   /\ \A j \in 1..(i - 1) : pushed[j].ev # pushed[i].ev
                   /\ i < Len(pushed)
                   /\ pushed[i + 1].kind = "event"
                   /\ pushed[i + 1].ev = pushed[i].ev
                   /\ pushed[i + 1].mid = pushed[i].desc
              ELSE /\ pushed[i].mid >= 1
                   /\ \/ \E j \in 1..(i - 1) :
                            /\ pushed[j].kind = "event" /\ pushed[j].ev = pushed[i].ev
                            /\ pushed[j].mid = pushed[i].mid
                      \/ i > 1 /\ pushed[i - 1].kind = "meta"
                               /\ pushed[i - 1].ev = pushed[i].ev
\* types 1, 2, 1, five records of a fifth of the block each
C11_Witness ==
    /\ Closed /\ ~m_lockOnWrite /\ SizeOf(pushed) = BlockCapacity
    /\ Len(m_pSerializer) = 3
    /\ [i \in 1..5 |-> <<pushed[i].kind, pushed[i].ev, pushed[i].desc, pushed[i].mid>>] =
          << <<"meta", 1, 1, 0>>, <<"event", 1, 0, 1>>, <<"meta", 2, 2, 0>>,
             <<"event", 2, 0, 2>>, <<"event", 1, 0, 1>> >>

\* C12: single writer, after finalization: the records of all blocks, in the
\* order the blocks were written, are the records in the order they were
\* handed to WriteToBlock; no block is larger than the capacity; a block
\* written before the last one was flushed for a record that did not fit it.
Blocks == [i \in 1..(Len(m_pSerializer) - 2) |-> m_pSerializer[i + 1].recs]
C12_GreedyInOrder ==
    (Closed /\ ~m_lockOnWrite) =>
        /\ Flat(m_pSerializer) = pushed
        /\ \A i \in DOMAIN Blocks : SizeOf(Blocks[i]) <= BlockCapacity
        /\ \A i \in 1..(Len(Blocks) - 1) :
              LET k == Len(Flat(SubSeq(m_pSerializer, 1, i + 1))) + 1
              IN  k <= Len(pushed) => SizeOf(Blocks[i]) + pushed[k].size > BlockCapacity

\* C13: the destructor's WriteEnd writes the current block, whatever it
\* holds, once, clears it, and writes the NullReference tag after it; a
\* writer destroyed before any WriteEvent call leaves the header, one empty
\* block and the tag.
C13_FinalizationFlushesOnce ==
    /\ [](phase = "destroyed" /\ calls = 0 =>
            m_pSerializer = <<HeaderObject, BlockObject(<<>>), NullReference>>)
    /\ [][phase' # phase =>
            /\ m_pSerializer' = m_pSerializer \o <<BlockObject(m_pBlock), NullReference>>
            /\ m_pBlock' = <<>>]_vars
C13_Witness ==
    /\ phase = "destroyed" /\ ~lateCall
    /\ Len(m_pSerializer) >= 4
    /\ LET last == m_pSerializer[Len(m_pSerializer) - 1].recs
       IN  last # <<>> /\ SizeOf(last) < BlockCapacity
\* C14: concurrent writers: a registration that lands leaves its id as the one
\* entry of its event type in the hash, so that after two racing first events
\* of a type the hash holds the id registered last; and after finalization
\* every metadata record written is in the stream.
C14_RegistryConvergesOnLast ==
    /\ [][\A t \in Threads :
            (m_lockOnWrite /\ pc[t] = "SaveAdd" /\ pc'[t] # "SaveAdd") =>
                {x \in m_pMetadataIds' : x[1] = instance[t].ev} =
                    {<<instance[t].ev, metadataId[t]>>}]_vars
    /\ []((Closed /\ m_lockOnWrite) =>
            \A r \in Range(pushed) : r.kind = "meta" => r \in Range(Flat(m_pSerializer)))

\* C15: every record handed to the block carries 0 if it is the metadata
\* instance (which was built with the new id) and the id WriteEvent resolved
\* if it is the caller's instance, so id 0 marks the metadata records and
\* only them; a step inside WriteToBlock leaves the hash and the id counter
\* alone, writes no record but its own and stays in WriteToBlock or returns.
Records == Range(pushed) \cup Range(Flat(m_pSerializer)) \cup Range(m_pBlock)
InWriteToBlock ==
    {"WriteToBlock", "TakeLock", "ReleaseLock", "FlushBlock", "ClearBlock", "RetryAppend"}
C15_IdZeroMarksMetadata ==
    /\ [](\A r \in Records :
            /\ r.mid = 0 <=> r.kind = "meta"
            /\ r.kind = "meta" => r.desc >= 1
            /\ r.kind = "event" => r.mid >= 1)
    /\ [][\A t \in Threads :
            (pc[t] \in InWriteToBlock /\ pc'[t] # pc[t]) =>
                /\ UNCHANGED <<m_pMetadataIds, m_metadataIdCounter>>
                /\ pc'[t] \in InWriteToBlock \cup {"idle", "SaveMetadataId"}
                /\ \/ pushed' = pushed
                   \/ /\ pc[t] = "WriteToBlock"
                      /\ pushed' = Append(pushed, [Current(t) EXCEPT !.mid =
                             IF site[t] = "meta" THEN 0 ELSE metadataId[t]])]_vars
C15_Witness ==
    /\ Closed
    /\ LET F == Flat(m_pSerializer)
       IN  \E i, j, k \in DOMAIN F :
              /\ i < j /\ j < k
              /\ F[i].kind = "meta" /\ F[i].mid = 0 /\ F[i].desc = 2
              /\ F[j].kind = "event" /\ F[j].mid = 2 /\ F[j].ev = F[i].ev
              /\ F[k].kind = "event" /\ F[k].mid = 1

\* C16: the ids GenerateMetadataId has returned, under any interleaving of
\* the callers, are 1, 2, ... up to the value of the counter, each returned
\* once: they are as many as the counter says, those written in metadata
\* records and those a caller still has in hand.
Issued == {j \in DOMAIN pushed : pushed[j].kind = "meta"}
InHand == {t \in Threads : pc[t] = "WriteToBlock" /\ site[t] = "meta"}
C16_IdsDenseAndUnique ==
    /\ {pushed[j].desc : j \in Issued} \cup {metadataId[t] : t \in InHand} =
          1..m_metadataIdCounter
    /\ Cardinality(Issued) + Cardinality(InHand) = m_metadataIdCounter
C16_Witness ==
    /\ m_lockOnWrite /\ m_metadataIdCounter = 2
    /\ InHand = Threads
    /\ instance["t1"].ev = instance["t2"].ev

\* C17: concurrent writers: while a thread has flushed the block and has not
\* finished its retry, the block is changed by no step but its own.
C17_OnlyFlusherMutatesBlock ==
    [][\A t \in Threads :
        (m_lockOnWrite /\ pc[t] \in {"ClearBlock", "RetryAppend"} /\ pc'[t] = pc[t]) =>
            m_pBlock' = m_pBlock]_vars

\* C18: when WriteEvent is over, by a return or by an exception of the
\* metadata WriteToBlock or of SaveMetadataId, its metadata instance has been
\* deleted.
C18_MetadataInstanceReleased ==
    \A t \in Threads : pc[t] = "idle" => pMetadataInstance[t] = NoInstance

\* C19: the hash holds at most one id per event type, every id in it is at
\* least 1 and at most the id counter, and GetMetadataId gives 0 exactly for
\* the event types without an entry.
C19_RegistryInvariant ==
    /\ \A e \in EventTypes : Cardinality({x \in m_pMetadataIds : x[1] = e}) <= 1
    /\ \A x \in m_pMetadataIds : x[2] >= 1 /\ x[2] <= m_metadataIdCounter
    /\ \A e \in EventTypes :
          (0 \in GetMetadataId(e)) <=> ~(\E x \in m_pMetadataIds : x[1] = e)

\* C20: single writer, every record written so far no larger than the block:
\* an empty block object in the stream is the one WriteEnd wrote, and one
\* WriteEvent call has made at most two WriteObject calls.
C20_NoEmptyFlushAtMostTwo ==
    (~m_lockOnWrite /\ AllFit) =>
        /\ \A i \in 2..Len(m_pSerializer) :
              (m_pSerializer[i].tag = "Block" /\ m_pSerializer[i].recs = <<>>) =>
                  phase = "destroyed" /\ i = Len(m_pSerializer) - 1
        /\ \A t \in Threads : flushes[t] <= 2
C20_Witness ==
    /\ ~m_lockOnWrite /\ AllFit /\ phase = "live"
    /\ \E t \in Threads : flushes[t] = 2
    /\ Len(m_pSerializer) >= 4

====
